---- MODULE Spec2Model ----
(***************************************************************************)
(* hnsd request handling (src/req.c): hsk_dns_req_create turns a decoded   *)
(* query into a request record or rejects it; hsk_dns_msg_finalize turns a *)
(* response message plus the request into size-bounded, optionally signed  *)
(* wire bytes.  The codec, the name checker, the RRSIG cleaner, truncation *)
(* and SIG(0) signing live outside req.c and are modelled at their         *)
(* interface.                                                              *)
(***************************************************************************)
EXTENDS Integers, Sequences, FiniteSets, TLC

VARIABLES
  pc,        \* position of the worker in create / finalize
  query,     \* the message hsk_dns_msg_decode produced for the datagram (kept for comparison)
  cmsg,      \* create: local `msg` pointer, <<>> is NULL
  cmsgFrees, \* create: number of hsk_dns_msg_free(msg) calls
  req,       \* the hsk_dns_req_t, <<>> is NULL
  reqFrees,  \* create: number of free(req) calls
  oob,       \* create: strcpy wrote past the end of req->name
  cret,      \* create: returned pointer: "none" (not returned), "req" or "NULL"
  tmpl,      \* finalize: the response message as the caller passed it in, <<>> before the call
  res,       \* finalize: the caller's *res: "tmpl" or "NULL"
  key,       \* finalize: a signing key was passed (key # NULL)
  msg,       \* finalize: the message `msg` points at, <<>> before line 161
  msgFrees,  \* finalize: number of hsk_dns_msg_free(msg) calls
  msgUAF,    \* finalize: msg was read or written after it was freed
  rdFrees,   \* finalize: number of free(msg->edns.rd) calls at line 186
  encoded,   \* finalize: the message handed to hsk_dns_msg_encode, <<>> before
  data,      \* finalize: the buffer `data`, <<>> is NULL
  dataFrees, \* finalize: number of free(data) calls
  max,       \* finalize: the truncation budget `max`
  out,       \* finalize: the buffer `out`, <<>> is NULL
  wire,      \* finalize: the caller's *wire: "junk" (uninitialised), "NULL" or "out"
  wire_len,  \* finalize: the caller's *wire_len
  fret,      \* finalize: return value: "none" (not returned), "true" or "false"
  steps,     \* finalize: the steps taken so far, in order
  failed,    \* finalize: the step that failed, "none" while none has
  par,       \* concurrent workers: the locals of each worker's calls
  pkey,      \* concurrent workers: the one signing key all workers are given
  pkey0      \* concurrent workers: the signing key as it was at the start

crest == <<query, cmsg, cmsgFrees, req, reqFrees, oob, cret>>
cvars == <<pc, query, cmsg, cmsgFrees, req, reqFrees, oob, cret>>
fvars == <<tmpl, res, key, msg, msgFrees, msgUAF, rdFrees, encoded, data,
           dataFrees, max, out, wire, wire_len, fret, steps, failed>>
pvars == <<par, pkey, pkey0>>

-----------------------------------------------------------------------------
(* Bounds of the model *)

\* transaction ids are 0..MaxId
MaxId == 1
\* capacity in chars of req->name, terminator included (scaled down)
NameCap == 5

-----------------------------------------------------------------------------
(* Constants of the DNS layer *)

HSK_DNS_MAX_UDP == 512
HSK_DNS_QUERY == 0
HSK_DNS_NOERROR == 0
HSK_DNS_IN == 1

\* header flag bits and EDNS flag bits are modelled as sets of bit names
HeaderBits == {"QR", "RD", "CD"}
EdnsBits == {"DO"}

-----------------------------------------------------------------------------
(* Names *)

\* a name of n chars that is a single label: "a...a."
LabelName(n) == [i \in 1..n |-> IF i = n THEN "." ELSE "a"]

ShortName == LabelName(NameCap - 1)
\* a name of two labels, the last one in uppercase
UpperName == <<"x", ".", "A", ".">>
LongName == LabelName(NameCap)
DirtyName == <<"\\", ".">>

Names == {ShortName, UpperName, LongName, DirtyName}

\* hsk_dns_name_dirty: the name holds a char outside the canonical set
hsk_dns_name_dirty(name) == \E i \in 1..Len(name) : name[i] = "\\"

\* strcpy(dst, src) needs strlen(src) + 1 bytes of dst
Fits(name) == Len(name) + 1 <= NameCap

\* what req->name can read as after strcpy overflowed it: the bytes past the
\* buffer belong to the fields written next, so the string may be intact or cut
Clobbered(name) == {name, SubSeq(name, 1, NameCap - 1)}

\* hsk_to_lower on one char
LowerChar(c) == IF c = "A" THEN "a" ELSE c

\* hsk_to_lower: the string with every char lowercased
hsk_to_lower(s) == [i \in 1..Len(s) |-> LowerChar(s[i])]

\* the positions that end a non-empty label of the name
LabelEnds(name) ==
  {i \in 2..Len(name) : name[i] = "." /\ name[i - 1] # "."}

SetMax(S) == CHOOSE x \in S : \A y \in S : y <= x

\* hsk_dns_label_count: the number of labels, the root not counted
hsk_dns_label_count(name) == Cardinality(LabelEnds(name))

\* hsk_dns_label_get(name, -1, .): the last label, empty for the root
hsk_dns_label_get_last(name) ==
  IF LabelEnds(name) = {} THEN <<>>
  ELSE LET e == SetMax(LabelEnds(name))
           s == SetMax({j \in 1..(e - 1) : j = 1 \/ name[j - 1] = "."})
       IN SubSeq(name, s, e - 1)

-----------------------------------------------------------------------------
(* Decoded queries *)

QTypes == {"A", "RRSIG"}
Classes == {HSK_DNS_IN, HSK_DNS_IN + 2}
EdnsSizes == {HSK_DNS_MAX_UDP - 1, HSK_DNS_MAX_UDP, 4096}

Questions == [name : Names, type : QTypes, class : Classes]

\* question sections of zero, one and two questions
QuestionSections ==
  {<<>>} \cup {<<q>> : q \in Questions}
         \cup {<<q, [q EXCEPT !.type = "A"]>> : q \in Questions}

EdnsStates == [enabled : BOOLEAN, size : EdnsSizes, flags : SUBSET EdnsBits]

\* the messages hsk_dns_msg_decode can hand back
Queries ==
  [opcode : {HSK_DNS_QUERY, HSK_DNS_QUERY + 1},
   code : {HSK_DNS_NOERROR, HSK_DNS_NOERROR + 1},
   id : 0..MaxId,
   flags : SUBSET {"RD", "CD"},
   qd : QuestionSections,
   an : 0..1,
   ns : 0..1,
   edns : EdnsStates]

\* hsk_dns_req_init, lines 19-33
NoReq == [id |-> 0, labels |-> 0, name |-> <<>>, type |-> "", class |-> 0,
          rd |-> FALSE, cd |-> FALSE, edns |-> FALSE, max_size |-> 0,
          dnssec |-> FALSE, tld |-> <<>>]

-----------------------------------------------------------------------------
(* hsk_dns_req_create *)

\* Rejects with the answer-count test left out
Rejects_NoAn(m) ==
  \/ m.opcode # HSK_DNS_QUERY
  \/ m.code # HSK_DNS_NOERROR
  \/ Len(m.qd) # 1
  \/ m.ns # 0
  \/ m.qd[1].class # HSK_DNS_IN
  \/ hsk_dns_name_dirty(m.qd[1].name)

\* lines 68-84: everything that sends the call to `fail`
Rejects(m) ==
  \/ m.opcode # HSK_DNS_QUERY
  \/ m.code # HSK_DNS_NOERROR
  \/ Len(m.qd) # 1
  \/ m.an # 0
  \/ m.ns # 0
  \/ m.qd[1].class # HSK_DNS_IN
  \/ hsk_dns_name_dirty(m.qd[1].name)

\* MaxSize without the 512 floor
MaxSize_NoFloor(m) ==
  IF m.edns.enabled THEN m.edns.size ELSE HSK_DNS_MAX_UDP

\* MaxSize without the default of line 104: zero unless EDNS sets it
MaxSize_NoDefault(m) ==
  IF m.edns.enabled /\ m.edns.size >= HSK_DNS_MAX_UDP THEN m.edns.size ELSE 0

\* lines 104-106: the negotiated response budget
MaxSize(m) ==
  IF m.edns.enabled /\ m.edns.size >= HSK_DNS_MAX_UDP
    THEN m.edns.size ELSE HSK_DNS_MAX_UDP

\* line 107
Dnssec(m) == "DO" \in m.edns.flags

\* Tld without the lowercasing of line 90
Tld_NoLower(name) == hsk_dns_label_get_last(name)

\* lines 86-90: the last label of the name, lowercased
Tld(name) == hsk_to_lower(hsk_dns_label_get_last(name))

\* lines 86-107: the request the fields of m fill in, with `name` as copied
Filled(m, name) ==
  [id |-> m.id,
   labels |-> hsk_dns_label_count(m.qd[1].name),
   name |-> name,
   type |-> m.qd[1].type,
   class |-> m.qd[1].class,
   rd |-> "RD" \in m.flags,
   cd |-> "CD" \in m.flags,
   edns |-> m.edns.enabled,
   max_size |-> MaxSize(m),
   dnssec |-> Dnssec(m),
   tld |-> Tld(m.qd[1].name)]

\* lines 57-63: req = hsk_dns_req_alloc()
CreateAlloc ==
  /\ pc = "create"
  /\ \E ok \in BOOLEAN :
       IF ok THEN /\ req' = <<NoReq>>
                  /\ pc' = "decode"
             ELSE /\ req' = <<>>
                  /\ pc' = "fail"
  /\ UNCHANGED <<query, cmsg, cmsgFrees, reqFrees, oob, cret>>
  /\ UNCHANGED fvars
  /\ UNCHANGED pvars

\* lines 65-66: hsk_dns_msg_decode(data, data_len, &msg)
CreateDecode ==
  /\ pc = "decode"
  /\ \/ /\ cmsg' = <<>>
        /\ query' = <<>>
        /\ pc' = "fail"
     \/ \E m \in Queries :
          /\ cmsg' = <<m>>
          /\ query' = <<m>>
          /\ pc' = "check"
  /\ UNCHANGED <<cmsgFrees, req, reqFrees, oob, cret>>
  /\ UNCHANGED fvars
  /\ UNCHANGED pvars

\* lines 68-84
CreateCheck ==
  /\ pc = "check"
  /\ pc' = IF Rejects(cmsg[1]) THEN "fail" ELSE "fill"
  /\ UNCHANGED <<query, cmsg, cmsgFrees, req, reqFrees, oob, cret>>
  /\ UNCHANGED fvars
  /\ UNCHANGED pvars

\* lines 86-115: fill the request, free the message, return the request. An
\* oversize name makes strcpy write past req->name: the call may abort, or
\* return with the name clobbered.
CreateFill ==
  /\ pc = "fill"
  /\ LET m == cmsg[1]
         name == m.qd[1].name
     IN IF Fits(name)
          THEN /\ req' = <<Filled(m, name)>>
               /\ oob' = oob
               /\ pc' = "created"
               /\ cret' = "req"
               /\ cmsgFrees' = cmsgFrees + 1
          ELSE /\ oob' = TRUE
               /\ \/ /\ \E n \in Clobbered(name) : req' = <<Filled(m, n)>>
                     /\ pc' = "created"
                     /\ cret' = "req"
                     /\ cmsgFrees' = cmsgFrees + 1
                  \/ /\ pc' = "crashed"
                     /\ UNCHANGED <<req, cret, cmsgFrees>>
  /\ UNCHANGED <<query, cmsg, reqFrees>>
  /\ UNCHANGED fvars
  /\ UNCHANGED pvars

\* CreateFail that forgets the decoded message
CreateFail_LeakMsg ==
  /\ pc = "fail"
  /\ reqFrees' = IF req # <<>> THEN reqFrees + 1 ELSE reqFrees
  /\ cret' = "NULL"
  /\ pc' = "rejected"
  /\ UNCHANGED <<query, cmsg, cmsgFrees, req, oob>>
  /\ UNCHANGED fvars
  /\ UNCHANGED pvars

\* lines 117-124: the fail label
CreateFail ==
  /\ pc = "fail"
  /\ reqFrees' = IF req # <<>> THEN reqFrees + 1 ELSE reqFrees
  /\ cmsgFrees' = IF cmsg # <<>> THEN cmsgFrees + 1 ELSE cmsgFrees
  /\ cret' = "NULL"
  /\ pc' = "rejected"
  /\ UNCHANGED <<query, cmsg, req, oob>>
  /\ UNCHANGED fvars
  /\ UNCHANGED pvars

-----------------------------------------------------------------------------
(* Response messages *)

\* questions a response under construction may carry: 0..MaxQd of them
MaxQd == 2
HSK_SIG0_RR_SIZE == 94
HeaderLen == 12

OtherQuestion == [name |-> <<"x", ".">>, type |-> "A"]

EdnsClear == [enabled |-> FALSE, version |-> 0, flags |-> {}, size |-> 512,
              code |-> 0, rd_len |-> 0, rd |-> FALSE]
EdnsStaged == [enabled |-> TRUE, version |-> 1, flags |-> {"DO"}, size |-> 1232,
               code |-> 1, rd_len |-> 1, rd |-> TRUE]

\* answer, authority and additional sections, as the record types they hold
SectionSets ==
  {[an |-> <<"A">>, ns |-> <<"NS">>, ar |-> <<"A">>],
   [an |-> <<"A", "RRSIG">>, ns |-> <<"NS", "RRSIG">>, ar |-> <<"RRSIG", "A">>]}

Templates ==
  {[id |-> i, flags |-> f, edns |-> e,
    qd |-> [k \in 1..n |-> OtherQuestion],
    an |-> s.an, ns |-> s.ns, ar |-> s.ar] :
     i \in 0..MaxId, f \in SUBSET HeaderBits, e \in {EdnsClear, EdnsStaged},
     n \in 0..MaxQd, s \in SectionSets}

\* query types whose answers keep their signatures
RetainTypes == {"ANY", "RRSIG"}

hsk_dns_rrs_clean(rrs, type) ==
  IF type \in RetainTypes THEN rrs
  ELSE SelectSeq(rrs, LAMBDA t : t # "RRSIG")

\* hsk_dns_msg_clean(msg, type): drop the RRSIG records of every section
hsk_dns_msg_clean(m, type) ==
  [m EXCEPT !.an = hsk_dns_rrs_clean(m.an, type),
            !.ns = hsk_dns_rrs_clean(m.ns, type),
            !.ar = hsk_dns_rrs_clean(m.ar, type)]

\* lengths hsk_dns_msg_encode can produce
EncLens == {100, 5000}

Buffer(len, tc, sig) == [len |-> len, tc |-> tc, sig |-> sig]

\* hsk_dns_msg_truncate(data, len, max, &len): the buffers it can leave
Truncated(b, limit) ==
  IF b.len <= limit THEN {b}
  ELSE {Buffer(l, TRUE, b.sig) : l \in {HeaderLen, limit}}

\* hsk_sig0_sign(ec, key, data, len, &out, &out_len): a copy without a key,
\* the message with one SIG(0) record appended with one
Signed(b, k) ==
  IF k THEN Buffer(b.len + HSK_SIG0_RR_SIZE, b.tc, TRUE) ELSE b

-----------------------------------------------------------------------------
(* hsk_dns_msg_finalize *)

\* Header that keeps the id the message came with
Header_KeepId(m, r) ==
  [m EXCEPT !.flags = (m.flags \cup {"QR"})
                        \cup (IF r.rd THEN {"RD"} ELSE {})
                        \cup (IF r.cd THEN {"CD"} ELSE {})]

\* lines 167-175
Header(m, r) ==
  [m EXCEPT !.id = r.id,
            !.flags = (m.flags \cup {"QR"})
                        \cup (IF r.rd THEN {"RD"} ELSE {})
                        \cup (IF r.cd THEN {"CD"} ELSE {})]

\* Edns without the reset of lines 178-188: only lines 190-195 are applied
Edns_NoReset(m, r) ==
  IF r.edns
    THEN [m EXCEPT !.edns.enabled = TRUE,
                   !.edns.size = 4096,
                   !.edns.flags = IF r.dnssec THEN m.edns.flags \cup {"DO"}
                                  ELSE m.edns.flags]
    ELSE m

\* lines 177-195
Edns(m, r) ==
  [m EXCEPT !.edns =
     [enabled |-> r.edns,
      version |-> 0,
      flags |-> IF r.edns /\ r.dnssec THEN {"DO"} ELSE {},
      size |-> IF r.edns THEN 4096 ELSE 512,
      code |-> 0,
      rd_len |-> 0,
      rd |-> FALSE]]

\* Budget that reserves nothing for the signature
Budget_NoReserve(r, k) == r.max_size

\* Budget that reserves room for the signature with and without a key
Budget_AlwaysReserve(r, k) == r.max_size - HSK_SIG0_RR_SIZE

\* line 213: the RRSIG records go unless the request asked for DNSSEC
NeedsClean_Never(r) == FALSE

NeedsClean(r) == ~r.dnssec

\* lines 163-165: the caller's pointers are reset on entry
ResetOut_KeepWire ==
  /\ res' = "NULL"
  /\ UNCHANGED <<wire, wire_len>>

ResetOut ==
  /\ res' = "NULL"
  /\ wire' = "NULL"
  /\ wire_len' = 0

\* `max` is a size_t: the subtraction of line 237 wraps below zero. The
\* modulus is scaled down from 2^64 to what the checker's integers hold.
SizeMod == 2^30

\* lines 234-237
Budget(r, k) ==
  IF k THEN (r.max_size - HSK_SIG0_RR_SIZE) % SizeMod ELSE r.max_size

\* FailFreeMsg that returns without freeing the message
FailFreeMsg_Leak ==
  /\ msgFrees' = msgFrees
  /\ fret' = "false"
  /\ pc' = "returned"

\* return false after freeing the message (lines 203-204, 215-216, 225-226)
FailFreeMsg ==
  /\ msgFrees' = msgFrees + 1
  /\ fret' = "false"
  /\ pc' = "returned"

\* FailFreeData with the return left out: the call goes on to the sign step
FailFreeData_NoReturn ==
  /\ dataFrees' = dataFrees + 1
  /\ fret' = fret
  /\ pc' = "f_sign"

\* FailFreeData that returns without freeing the encoded buffer
FailFreeData_Leak ==
  /\ dataFrees' = dataFrees
  /\ fret' = "false"
  /\ pc' = "returned"

\* return false after freeing the encoded buffer (lines 240-241, 249-250)
FailFreeData ==
  /\ dataFrees' = dataFrees + 1
  /\ fret' = "false"
  /\ pc' = "returned"

\* the caller builds a response for the request and calls finalize, with or
\* without a key, its wire and wire_len not yet set. The decoded query is
\* gone by then (freed at line 113). A request left by an out-of-bounds
\* strcpy is not followed into finalize.
FinalizeCall ==
  /\ pc = "created"
  /\ ~oob
  /\ \E t \in Templates, k \in BOOLEAN :
       /\ tmpl' = <<t>>
       /\ key' = k
  /\ res' = "tmpl"
  /\ wire' = "junk"
  /\ wire_len' = 7
  /\ query' = <<>>
  /\ cmsg' = <<>>
  /\ pc' = "f_header"
  /\ UNCHANGED <<cmsgFrees, req, reqFrees, oob, cret>>
  /\ UNCHANGED pvars
  /\ UNCHANGED <<msg, msgFrees, msgUAF, rdFrees, encoded, data, dataFrees,
                 max, out, fret, steps, failed>>

\* lines 159-195: take the message over, reset the outputs, rewrite header and EDNS
FinalizeHeader ==
  /\ pc = "f_header"
  /\ ResetOut
  /\ msg' = <<Edns(Header(tmpl[1], req[1]), req[1])>>
  /\ rdFrees' = IF tmpl[1].edns.rd THEN rdFrees + 1 ELSE rdFrees
  /\ msgUAF' = (msgUAF \/ msgFrees > 0)
  /\ pc' = "f_question"
  /\ UNCHANGED crest
  /\ UNCHANGED pvars
  /\ UNCHANGED <<tmpl, key, msgFrees, encoded, data, dataFrees, max, out, fret,
                 steps, failed>>

\* Question that pushes onto the questions the message came with
Question_KeepOld(m, r) ==
  [m EXCEPT !.qd = Append(m.qd, [name |-> r.name, type |-> r.type])]

\* lines 198-210: hsk_dns_rrs_uninit(&msg->qd), then one question made from
\* the request is pushed
Question(m, r) ==
  [m EXCEPT !.qd = <<[name |-> r.name, type |-> r.type]>>]

\* lines 197-210: drop the questions, push one made from the request
FinalizeQuestion ==
  /\ pc = "f_question"
  /\ steps' = Append(steps, "question")
  /\ msgUAF' = (msgUAF \/ msgFrees > 0)
  /\ \/ /\ msg' = <<[msg[1] EXCEPT !.qd = <<>>]>>
        /\ failed' = "question"
        /\ FailFreeMsg
     \/ /\ msg' = <<Question(msg[1], req[1])>>
        /\ pc' = "f_clean"
        /\ UNCHANGED <<msgFrees, fret, failed>>
  /\ UNCHANGED crest
  /\ UNCHANGED pvars
  /\ UNCHANGED <<tmpl, res, key, rdFrees, encoded, data, dataFrees, max, out,
                 wire, wire_len>>

\* lines 212-218: hsk_dns_msg_clean unless the request asked for DNSSEC
FinalizeClean ==
  /\ pc = "f_clean"
  /\ IF NeedsClean(req[1])
       THEN /\ steps' = Append(steps, "clean")
            /\ msgUAF' = (msgUAF \/ msgFrees > 0)
            /\ \/ /\ FailFreeMsg
                  /\ failed' = "clean"
                  /\ msg' = msg
               \/ /\ msg' = <<hsk_dns_msg_clean(msg[1], req[1].type)>>
                  /\ pc' = "f_encode"
                  /\ UNCHANGED <<msgFrees, fret, failed>>
       ELSE /\ pc' = "f_encode"
            /\ UNCHANGED <<msg, msgFrees, msgUAF, fret, steps, failed>>
  /\ UNCHANGED crest
  /\ UNCHANGED pvars
  /\ UNCHANGED <<tmpl, res, key, rdFrees, encoded, data, dataFrees, max, out,
                 wire, wire_len>>

\* lines 220-231: hsk_dns_msg_encode, then the message is freed either way
FinalizeEncode ==
  /\ pc = "f_encode"
  /\ steps' = Append(steps, "encode")
  /\ msgUAF' = (msgUAF \/ msgFrees > 0)
  /\ encoded' = msg
  /\ \/ /\ FailFreeMsg
        /\ failed' = "encode"
        /\ data' = data
     \/ /\ \E l \in EncLens : data' = <<Buffer(l, FALSE, FALSE)>>
        /\ msgFrees' = msgFrees + 1
        /\ pc' = "f_truncate"
        /\ UNCHANGED <<fret, failed>>
  /\ UNCHANGED crest
  /\ UNCHANGED pvars
  /\ UNCHANGED <<tmpl, res, key, msg, rdFrees, dataFrees, max, out, wire, wire_len>>

\* lines 233-242: the budget, then hsk_dns_msg_truncate
FinalizeTruncate ==
  /\ pc = "f_truncate"
  /\ steps' = Append(steps, "truncate")
  /\ max' = Budget(req[1], key)
  /\ \/ /\ FailFreeData
        /\ failed' = "truncate"
        /\ data' = data
     \/ /\ max' >= HeaderLen
        /\ \E b \in Truncated(data[1], max') : data' = <<b>>
        /\ pc' = "f_sign"
        /\ UNCHANGED <<dataFrees, fret, failed>>
  /\ UNCHANGED crest
  /\ UNCHANGED pvars
  /\ UNCHANGED <<tmpl, res, key, msg, msgFrees, msgUAF, rdFrees, encoded, out,
                 wire, wire_len>>

\* lines 244-259: hsk_sig0_sign, free the encoded buffer, hand out the result
FinalizeSign ==
  /\ pc = "f_sign"
  /\ steps' = Append(steps, "sign")
  /\ \/ /\ FailFreeData
        /\ failed' = "sign"
        /\ UNCHANGED <<out, wire, wire_len>>
     \/ /\ out' = <<Signed(data[1], key)>>
        /\ failed' = failed
        /\ dataFrees' = dataFrees + 1
        /\ wire' = "out"
        /\ wire_len' = out'[1].len
        /\ fret' = "true"
        /\ pc' = "returned"
  /\ UNCHANGED crest
  /\ UNCHANGED pvars
  /\ UNCHANGED <<tmpl, res, key, msg, msgFrees, msgUAF, rdFrees, encoded, data, max>>

-----------------------------------------------------------------------------

\* the state before hsk_dns_req_create is called
SeqInit ==
  /\ pc = "create"
  /\ query = <<>>
  /\ cmsg = <<>>
  /\ cmsgFrees = 0
  /\ req = <<>>
  /\ reqFrees = 0
  /\ oob = FALSE
  /\ cret = "none"
  /\ tmpl = <<>>
  /\ res = "NULL"
  /\ key = FALSE
  /\ msg = <<>>
  /\ msgFrees = 0
  /\ msgUAF = FALSE
  /\ rdFrees = 0
  /\ encoded = <<>>
  /\ data = <<>>
  /\ dataFrees = 0
  /\ max = 0
  /\ out = <<>>
  /\ wire = "NULL"
  /\ wire_len = 0
  /\ fret = "none"
  /\ steps = <<>>
  /\ failed = "none"

Init ==
  /\ SeqInit
  /\ par = <<>>
  /\ pkey = FALSE
  /\ pkey0 = FALSE

Next ==
  \/ CreateAlloc
  \/ CreateDecode
  \/ CreateCheck
  \/ CreateFill
  \/ CreateFail
  \/ FinalizeCall
  \/ FinalizeHeader
  \/ FinalizeQuestion
  \/ FinalizeClean
  \/ FinalizeEncode
  \/ FinalizeTruncate
  \/ FinalizeSign

vars == <<pc, query, cmsg, cmsgFrees, req, reqFrees, oob, cret, tmpl, res, key,
          msg, msgFrees, msgUAF, rdFrees, encoded, data, dataFrees, max, out,
          wire, wire_len, fret, steps, failed, par, pkey, pkey0>>

Spec == Init /\ [][Next]_vars

-----------------------------------------------------------------------------
(* Properties of hsk_dns_req_create *)

Sigs(rrs) == SelectSeq(rrs, LAMBDA t : t = "RRSIG")

\* create has returned or aborted and the decoded query is still on record
CreateOver == pc \in {"created", "rejected", "crashed"}

\* the query breaks one of the validation rules
Invalid(m) ==
  \/ m.opcode # HSK_DNS_QUERY
  \/ m.code # HSK_DNS_NOERROR
  \/ Len(m.qd) = 0
  \/ Len(m.qd) > 1
  \/ m.an > 0
  \/ m.ns > 0
  \/ (Len(m.qd) = 1 /\ m.qd[1].class # HSK_DNS_IN)
  \/ (Len(m.qd) = 1 /\ hsk_dns_name_dirty(m.qd[1].name))

\* C1: when decoding fails or the query breaks any validation rule (opcode,
\* response code, question count, answer count, authority count, class,
\* dirty name), hsk_dns_req_create returns NULL and no request is produced.
C1_RejectsInvalid ==
  (CreateOver /\ (query = <<>> \/ Invalid(query[1])))
    => (pc = "rejected" /\ cret = "NULL")

\* C1 witness: a query with two questions has been rejected.
C1_Witness ==
  /\ pc = "rejected"
  /\ query # <<>>
  /\ Len(query[1].qd) = 2
  /\ cret = "NULL"

\* C5: a request has dnssec set only if it has edns set and the query's DO
\* bit was set; dnssec is clear whenever the query had EDNS disabled.
C5_DnssecNeedsEdns ==
  pc = "created" =>
    /\ req[1].dnssec => (req[1].edns /\ "DO" \in query[1].edns.flags)
    /\ ~query[1].edns.enabled => ~req[1].dnssec

\* C6: max_size is 512 when the query had no EDNS or advertised less than
\* 512, the advertised size otherwise; so it is at least 512.
C6_MaxSize ==
  /\ pc = "created" =>
       LET e == query[1].edns
       IN /\ (~e.enabled \/ e.size < 512) => req[1].max_size = 512
          /\ (e.enabled /\ e.size >= 512) => req[1].max_size = e.size
  /\ cret = "req" => req[1].max_size >= 512

\* C6 witness: a request made from a query that advertised less than 512.
C6_Witness ==
  /\ pc = "created"
  /\ query[1].edns.enabled
  /\ query[1].edns.size < 512
  /\ req[1].max_size = 512

\* C7: a query that passes validation yields a request whose id, name, type,
\* class, rd and cd equal those of the query and its question.
C7_Mirrors ==
  (CreateOver /\ query # <<>> /\ ~Invalid(query[1])) =>
    /\ pc = "created"
    /\ req[1].id = query[1].id
    /\ req[1].name = query[1].qd[1].name
    /\ req[1].type = query[1].qd[1].type
    /\ req[1].class = query[1].qd[1].class
    /\ req[1].rd = ("RD" \in query[1].flags)
    /\ req[1].cd = ("CD" \in query[1].flags)

-----------------------------------------------------------------------------
(* Properties of hsk_dns_msg_finalize *)

\* C2: on every exit of hsk_dns_msg_finalize the message passed in has been
\* freed exactly once and never touched after that, and *res is NULL.
C2_TemplateReleasedOnce ==
  /\ msgFrees <= 1
  /\ ~msgUAF
  /\ pc = "returned" => (msgFrees = 1 /\ res = "NULL")

\* C2 witness: finalize returned false from a failed sign, message freed once.
C2_Witness ==
  /\ pc = "returned"
  /\ fret = "false"
  /\ steps # <<>>
  /\ steps[Len(steps)] = "sign"
  /\ msgFrees = 1

\* C3: a successful finalize returns at most max_size bytes, and with a key
\* the truncated buffer is at most max_size less the signature record.
C3_WithinBudget ==
  /\ fret = "true" => wire_len <= req[1].max_size
  /\ ((pc = "f_sign" \/ fret = "true") /\ key)
       => data[1].len <= req[1].max_size - HSK_SIG0_RR_SIZE

\* C3 witness: a signed response that fills the budget of 4096 exactly.
C3_Witness ==
  /\ fret = "true"
  /\ key
  /\ req[1].max_size = 4096
  /\ data[1].len = 4096 - HSK_SIG0_RR_SIZE
  /\ wire_len = 4096

\* C4: after a failed finalize *wire is NULL and *wire_len is 0; after a
\* successful one *wire is the signed buffer and *wire_len its length.
C4_OutputAllOrNothing ==
  /\ (pc = "returned" /\ fret = "false") => (wire = "NULL" /\ wire_len = 0)
  /\ (pc = "returned" /\ fret = "true")
       => (wire = "out" /\ out # <<>> /\ wire_len = out[1].len
           /\ out[1] = Signed(data[1], key))

\* C4 witness: finalize failed at truncation, after the buffer was encoded.
C4_Witness ==
  /\ pc = "returned"
  /\ fret = "false"
  /\ data # <<>>
  /\ wire = "NULL"

\* C8 as stated: without dnssec the encoded message holds no RRSIG in any
\* section whatever the query type; with dnssec the clean step is not
\* called and every RRSIG of the message passed in is still there.
C8_NoSigsForAnyType ==
  fret = "true" =>
    /\ ~req[1].dnssec =>
         (Sigs(encoded[1].an) = <<>> /\ Sigs(encoded[1].ns) = <<>>
          /\ Sigs(encoded[1].ar) = <<>>)
    /\ req[1].dnssec =>
         (/\ \A i \in 1..Len(steps) : steps[i] # "clean"
          /\ encoded[1].an = tmpl[1].an
          /\ encoded[1].ns = tmpl[1].ns
          /\ encoded[1].ar = tmpl[1].ar)

\* C8 amended: without dnssec the encoded message holds no RRSIG in any
\* section unless the query type is one the clean step keeps signatures
\* for; with dnssec the clean step is not called and every RRSIG of the
\* message passed in is still there.
C8_NoSigsUnlessRetained ==
  fret = "true" =>
    /\ (~req[1].dnssec /\ req[1].type \notin RetainTypes) =>
         (Sigs(encoded[1].an) = <<>> /\ Sigs(encoded[1].ns) = <<>>
          /\ Sigs(encoded[1].ar) = <<>>)
    /\ req[1].dnssec =>
         (/\ \A i \in 1..Len(steps) : steps[i] # "clean"
          /\ encoded[1].an = tmpl[1].an
          /\ encoded[1].ns = tmpl[1].ns
          /\ encoded[1].ar = tmpl[1].ar)

\* C8 witness: signatures in every section were removed for a type A query
\* that did not ask for DNSSEC.
C8_Witness ==
  /\ fret = "true"
  /\ ~req[1].dnssec
  /\ req[1].type = "A"
  /\ Sigs(tmpl[1].an) # <<>>
  /\ Sigs(tmpl[1].ns) # <<>>
  /\ Sigs(tmpl[1].ar) # <<>>
  /\ Sigs(encoded[1].an) = <<>>

\* C9: in the encoded message RD is set exactly when the request has rd and
\* CD exactly when the request has cd.
C9_FlagsMirrorRequest ==
  encoded # <<>> =>
    /\ ("RD" \in encoded[1].flags) = req[1].rd
    /\ ("CD" \in encoded[1].flags) = req[1].cd

\* C10: in the encoded message the id is the request's id and QR is set.
C10_IdAndQR ==
  encoded # <<>> =>
    /\ encoded[1].id = req[1].id
    /\ "QR" \in encoded[1].flags

\* C10 witness: the message came in with another id and without QR.
C10_Witness ==
  /\ encoded # <<>>
  /\ tmpl[1].id # req[1].id
  /\ "QR" \notin tmpl[1].flags
  /\ encoded[1].id = req[1].id

-----------------------------------------------------------------------------
(* Properties settled after the first ten *)

\* c is the lowercase form of d
IsLowerOf(c, d) == IF d = "A" THEN c = "a" ELSE c = d

\* C11: the tld of a request is the last non-root label of the question
\* name in lowercase, whatever the case of the name: it holds no dot and no
\* uppercase char, it is the lowercased run of chars before the final dot,
\* and that run starts the name or follows a dot. The name itself is not
\* lowercased: each char it holds is the query's char.
C11_TldLowerLastLabel ==
  pc = "created" =>
    LET n == query[1].qd[1].name
        t == req[1].tld
        L == Len(n)
        k == Len(t)
    IN /\ k >= 1
       /\ k + 1 <= L
       /\ n[L] = "."
       /\ \A i \in 1..k : t[i] \notin {".", "A"}
       /\ \A i \in 1..k : IsLowerOf(t[i], n[L - 1 - k + i])
       /\ (L - 1 - k = 0 \/ n[L - 1 - k] = ".")
       /\ \A i \in 1..Len(req[1].name) :
            i <= L /\ req[1].name[i] = n[i]

\* C11 witness: a request made from an uppercase name has a lowercase tld
\* and the name as it came.
C11_Witness ==
  /\ pc = "created"
  /\ query[1].qd[1].name = UpperName
  /\ req[1].name = UpperName
  /\ req[1].tld = <<"a">>

\* C13: the EDNS state of the encoded message is set by the request alone:
\* option data released and empty, version and extended rcode 0; without
\* edns in the request disabled, size 512, flags 0; with it enabled, size
\* 4096 whatever max_size is, and DO set exactly when the request has dnssec.
C13_EdnsFromRequest ==
  encoded # <<>> =>
    LET e == encoded[1].edns
        r == req[1]
    IN /\ e.rd = FALSE
       /\ e.rd_len = 0
       /\ rdFrees = (IF tmpl[1].edns.rd THEN 1 ELSE 0)
       /\ e.version = 0
       /\ e.code = 0
       /\ ~r.edns => (~e.enabled /\ e.size = 512 /\ e.flags = {})
       /\ r.edns => (/\ e.enabled
                     /\ e.size = 4096
                     /\ ("DO" \in e.flags) = r.dnssec)

\* C13 witness: the message came in with EDNS staged (enabled, DO, option
\* data) for a request without EDNS, and is encoded with EDNS disabled.
C13_Witness ==
  /\ encoded # <<>>
  /\ tmpl[1].edns = EdnsStaged
  /\ ~req[1].edns
  /\ ~encoded[1].edns.enabled
  /\ rdFrees = 1

\* C14: the encoded message has exactly one question, with the request's
\* name and type, whatever questions the message came with.
C14_OneQuestion ==
  encoded # <<>> =>
    /\ Len(encoded[1].qd) = 1
    /\ encoded[1].qd[1].name = req[1].name
    /\ encoded[1].qd[1].type = req[1].type

\* C14 witness: the message came in with several questions of another name.
C14_Witness ==
  /\ encoded # <<>>
  /\ Len(tmpl[1].qd) >= 2
  /\ tmpl[1].qd[1].name # req[1].name
  /\ Len(encoded[1].qd) = 1

\* the steps of a finalize call that runs to the end, in order
FullRun(r) ==
  <<"question">> \o (IF r.dnssec THEN <<>> ELSE <<"clean">>)
                 \o <<"encode", "truncate", "sign">>

\* C15: the steps run in the order question, clean (only without dnssec),
\* encode, truncate, sign, each at most once; a step that fails is the last
\* step of the call, and the call then returns false.
C15_FixedOrder ==
  tmpl # <<>> =>
    /\ Len(steps) <= Len(FullRun(req[1]))
    /\ steps = SubSeq(FullRun(req[1]), 1, Len(steps))
    /\ failed # "none" =>
         (/\ pc = "returned"
          /\ fret = "false"
          /\ steps # <<>>
          /\ steps[Len(steps)] = failed)
    /\ fret = "false" => failed # "none"
    /\ fret = "true" => steps = FullRun(req[1])

\* C15 witness: truncation failed after clean and encode; sign never ran.
C15_Witness ==
  /\ pc = "returned"
  /\ fret = "false"
  /\ failed = "truncate"
  /\ steps = <<"question", "clean", "encode", "truncate">>

\* C16: a successful finalize without a key returns the truncated buffer
\* as it is, bytes and length, with no signature record, and truncates to
\* max_size with nothing reserved.
C16_NoKeyNoSignature ==
  (fret = "true" /\ ~key) =>
    /\ out[1] = data[1]
    /\ wire_len = data[1].len
    /\ ~out[1].sig
    /\ max = req[1].max_size

\* C16 witness: without a key an encoded message of more than 512 bytes was
\* cut to exactly 512 and returned so.
C16_Witness ==
  /\ fret = "true"
  /\ ~key
  /\ req[1].max_size = 512
  /\ data[1].tc
  /\ data[1].len = 512
  /\ wire_len = 512

\* C17: the copy of the question name into req->name never writes past the
\* buffer, and a query whose question name is longer than the buffer can
\* hold is rejected.
C17_NameCopyFailsClosed ==
  /\ ~oob
  /\ (CreateOver /\ query # <<>> /\ query[1].qd # <<>>
        /\ Len(query[1].qd[1].name) + 1 > NameCap)
       => (pc = "rejected" /\ cret = "NULL")

\* C18: the encoded buffer is freed exactly once when truncate fails, when
\* sign fails and on success, never when encode did not produce it, and is
\* never what the caller gets; after a failure no buffer of the call is
\* left, after success only the signed output.
C18_BuffersReleasedOnce ==
  /\ dataFrees <= 1
  /\ wire \in {"junk", "NULL", "out"}
  /\ pc = "returned" =>
       /\ dataFrees = (IF data # <<>> THEN 1 ELSE 0)
       /\ failed \in {"question", "clean", "encode"} => data = <<>>
       /\ failed \in {"truncate", "sign"} => data # <<>>
       /\ msgFrees = 1
       /\ fret = "false" => (out = <<>> /\ wire = "NULL")
       /\ fret = "true" => (out # <<>> /\ wire = "out" /\ data # <<>>)

\* C18 witness: sign failed, the encoded buffer was freed once and nothing
\* was handed out.
C18_Witness ==
  /\ pc = "returned"
  /\ failed = "sign"
  /\ data # <<>>
  /\ dataFrees = 1
  /\ out = <<>>

\* C19: when hsk_dns_req_create returns, the decoded message, if there was
\* one, has been freed exactly once; a rejection has also freed the request
\* storage exactly once if it was allocated, an acceptance has not freed it.
C19_CreateReleases ==
  /\ cmsgFrees <= 1
  /\ reqFrees <= 1
  /\ pc = "rejected" =>
       /\ cmsgFrees = (IF cmsg # <<>> THEN 1 ELSE 0)
       /\ reqFrees = (IF req # <<>> THEN 1 ELSE 0)
  /\ pc = "created" => (cmsgFrees = 1 /\ reqFrees = 0 /\ cret = "req")

\* C19 witness: a decoded query was rejected; message and request storage
\* were each freed once.
C19_Witness ==
  /\ pc = "rejected"
  /\ cmsg # <<>>
  /\ cmsgFrees = 1
  /\ reqFrees = 1

\* C20: with a key the subtraction max_size - HSK_SIG0_RR_SIZE never wraps,
\* since every request has max_size >= 512 and the signature record is
\* smaller than 512: the truncation budget is positive and below max_size
\* with a key, and max_size without.
C20_BudgetNoWrap ==
  /\ HSK_SIG0_RR_SIZE < 512
  /\ cret = "req" => req[1].max_size >= 512
  /\ (\E i \in 1..Len(steps) : steps[i] = "truncate") =>
       IF key
         THEN /\ max = req[1].max_size - HSK_SIG0_RR_SIZE
              /\ max > 0
              /\ max < req[1].max_size
         ELSE max = req[1].max_size

\* C20 witness: with a key and the smallest max_size, 512, the budget is
\* 512 less the signature record.
C20_Witness ==
  /\ pc = "f_sign"
  /\ key
  /\ req[1].max_size = 512
  /\ max = 512 - HSK_SIG0_RR_SIZE
  /\ max > 0

-----------------------------------------------------------------------------
(* Concurrent workers: each runs hsk_dns_req_create and then             *)
(* hsk_dns_msg_finalize on its own datagram and its own response message; *)
(* the signing key is the one thing every worker is given.                *)

Workers == {1, 2}

PlainQuery ==
  [opcode |-> HSK_DNS_QUERY, code |-> HSK_DNS_NOERROR, id |-> 0,
   flags |-> {"RD"},
   qd |-> <<[name |-> ShortName, type |-> "A", class |-> HSK_DNS_IN]>>,
   an |-> 0, ns |-> 0,
   edns |-> [enabled |-> FALSE, size |-> HSK_DNS_MAX_UDP, flags |-> {}]]

EdnsQuery ==
  [opcode |-> HSK_DNS_QUERY, code |-> HSK_DNS_NOERROR, id |-> MaxId,
   flags |-> {"CD"},
   qd |-> <<[name |-> UpperName, type |-> "A", class |-> HSK_DNS_IN]>>,
   an |-> 0, ns |-> 0,
   edns |-> [enabled |-> TRUE, size |-> 4096, flags |-> {"DO"}]]

TwoQuestionQuery ==
  [PlainQuery EXCEPT !.qd = <<PlainQuery.qd[1], PlainQuery.qd[1]>>]

\* what hsk_dns_msg_decode hands a worker: nothing, or one of three messages
ParQueries == {<<>>, <<PlainQuery>>, <<EdnsQuery>>, <<TwoQuestionQuery>>}

\* the response messages a worker's caller may have built
ParTemplates ==
  {[id |-> 0, flags |-> {}, edns |-> EdnsClear, qd |-> <<>>,
    an |-> <<"A">>, ns |-> <<"NS">>, ar |-> <<"A">>],
   [id |-> MaxId, flags |-> {"RD"}, edns |-> EdnsStaged,
    qd |-> <<OtherQuestion>>,
    an |-> <<"A", "RRSIG">>, ns |-> <<"NS", "RRSIG">>, ar |-> <<"RRSIG", "A">>]}

\* the locals of a worker before hsk_dns_req_create: its datagram as decoded
\* (q), its response message (t), and nothing else yet
Locals(q, t) ==
  [pc |-> "create", q |-> q, t |-> t, req |-> <<>>, msg |-> <<>>,
   encoded |-> <<>>, data |-> <<>>, out |-> <<>>, ret |-> "none"]

\* a worker's call returns: `ret` is "NULL" (no request), "false" or "true"
Return(l, ret) == [l EXCEPT !.pc = "done", !.ret = ret]

\* a step of worker w that leaves everything but w's locals alone
Local(w, l) ==
  /\ par' = [par EXCEPT ![w] = l]
  /\ UNCHANGED <<pkey, pkey0>>
  /\ UNCHANGED <<cvars, fvars>>

\* lines 57-66: allocate the request, decode the datagram
PDecode(w) ==
  /\ par[w].pc = "create"
  /\ \/ Local(w, Return(par[w], "NULL"))
     \/ /\ par[w].q # <<>>
        /\ Local(w, [par[w] EXCEPT !.pc = "validate"])

\* lines 68-125: validate, fill the request or go to fail
PValidate(w) ==
  /\ par[w].pc = "validate"
  /\ LET m == par[w].q[1]
     IN IF Rejects(m)
          THEN Local(w, Return(par[w], "NULL"))
          ELSE Local(w, [par[w] EXCEPT !.pc = "header",
                                       !.req = <<Filled(m, m.qd[1].name)>>])

\* lines 159-210: header, EDNS and question of the worker's own message
PHeader(w) ==
  /\ par[w].pc = "header"
  /\ LET r == par[w].req[1]
     IN \/ Local(w, Return(par[w], "false"))
        \/ Local(w, [par[w] EXCEPT
                       !.pc = "clean",
                       !.msg = <<Question(Edns(Header(par[w].t, r), r), r)>>])

\* lines 212-218
PClean(w) ==
  /\ par[w].pc = "clean"
  /\ LET r == par[w].req[1]
     IN IF NeedsClean(r)
          THEN \/ Local(w, Return(par[w], "false"))
               \/ Local(w, [par[w] EXCEPT
                              !.pc = "encode",
                              !.msg = <<hsk_dns_msg_clean(par[w].msg[1], r.type)>>])
          ELSE Local(w, [par[w] EXCEPT !.pc = "encode"])

\* lines 220-231
PEncode(w) ==
  /\ par[w].pc = "encode"
  /\ \/ Local(w, Return([par[w] EXCEPT !.encoded = par[w].msg], "false"))
     \/ \E len \in EncLens :
          Local(w, [par[w] EXCEPT !.pc = "truncate",
                                  !.encoded = par[w].msg,
                                  !.data = <<Buffer(len, FALSE, FALSE)>>])

\* lines 233-242: the budget depends on whether a key was given
PTruncate(w) ==
  /\ par[w].pc = "truncate"
  /\ LET limit == Budget(par[w].req[1], pkey)
     IN \/ Local(w, Return(par[w], "false"))
        \/ /\ limit >= HeaderLen
           /\ \E b \in Truncated(par[w].data[1], limit) :
                Local(w, [par[w] EXCEPT !.pc = "sign", !.data = <<b>>])

\* PSign that clears the shared key once it has signed
PSign_DropsKey(w) ==
  /\ par[w].pc = "sign"
  /\ par' = [par EXCEPT ![w] =
               Return([par[w] EXCEPT !.out = <<Signed(par[w].data[1], pkey)>>],
                      "true")]
  /\ pkey' = FALSE
  /\ UNCHANGED pkey0
  /\ UNCHANGED <<cvars, fvars>>

\* lines 244-259: hsk_sig0_sign reads the key, the result is handed out
PSign(w) ==
  /\ par[w].pc = "sign"
  /\ \/ Local(w, Return(par[w], "false"))
     \/ Local(w, Return([par[w] EXCEPT
                           !.out = <<Signed(par[w].data[1], pkey)>>],
                        "true"))

\* every worker has its own datagram and response message; one key, or none
InitPar ==
  /\ SeqInit
  /\ par \in [Workers -> {Locals(q, t) : q \in ParQueries, t \in ParTemplates}]
  /\ pkey \in BOOLEAN
  /\ pkey0 = pkey

NextPar ==
  \/ \E w \in Workers : PDecode(w)
  \/ \E w \in Workers : PValidate(w)
  \/ \E w \in Workers : PHeader(w)
  \/ \E w \in Workers : PClean(w)
  \/ \E w \in Workers : PEncode(w)
  \/ \E w \in Workers : PTruncate(w)
  \/ \E w \in Workers : PSign(w)

SpecPar == InitPar /\ [][NextPar]_vars

\* what hsk_dns_req_create can return for a decoded datagram when it runs
\* alone: NULL, or for a query that passes validation the filled request
CreateAlone(q) ==
  {<<>>} \cup (IF q # <<>> /\ ~Invalid(q[1])
                 THEN {<<Filled(q[1], q[1].qd[1].name)>>} ELSE {})

\* the message hsk_dns_msg_finalize encodes for request r and message t
\* when it runs alone
EncodedAlone(r, t) ==
  LET m == Question(Edns(Header(t, r), r), r)
  IN IF r.dnssec THEN m ELSE hsk_dns_msg_clean(m, r.type)

\* what hsk_dns_msg_finalize can hand out for request r with key k when it
\* runs alone: nothing (false), or a signed truncation of an encoding
OutAlone(r, k) ==
  {<<>>} \cup
  {<<Signed(b, k)>> :
     b \in UNION {Truncated(Buffer(len, FALSE, FALSE),
                            IF k THEN r.max_size - HSK_SIG0_RR_SIZE
                            ELSE r.max_size) : len \in EncLens}}

====
